---- MODULE Spec2Model ----
(***************************************************************************)
(* The symbolic controlled operator of pennylane/ops/op_math/              *)
(* controlled_class.py as a state machine over a heap of operator objects. *)
(*                                                                         *)
(* Python objects are heap cells: `bases` holds the wrapped (base)         *)
(* operators, `ops` the Controlled instances (each with a pointer `base`   *)
(* into `bases`), `types` the classes built by type(...) in __new__.       *)
(* Python lists/Wires are sequences; a Python slice s[a:b] is              *)
(* PySlice(s, a, b).  A Python value of a control_values list is a record  *)
(* [type, val] so that True == 1 and False == 0 compare equal as they do   *)
(* in Python.                                                              *)
(***************************************************************************)
EXTENDS Integers, Sequences, FiniteSets, TLC

VARIABLES
    bases,      \* heap of base operators: Seq([cap, name, wires, data, inverse])
    ops,        \* heap of Controlled instances, see Controlled__init__
    types,      \* the derived classes created by type("Controlled", ...)
    typeCache,  \* Controlled._operation_type / _operation_observable_type / _observable_type
    queue,      \* the recording context: ids of the Controlled instances appended
    clones,     \* history: <<original, clone>> for every copy(op) made
    args,       \* the arguments of the constructor call about to be made, or NoArgs
    ret         \* the last call: [call, self, err, out]

vars == <<bases, ops, types, typeCache, queue, clones, args, ret>>

----------------------------------------------------------------------------
(* Bounds of the model *)

NumWires == 3       \* Spec: wire labels are 0 .. NumWires-1
MaxBaseWires == 2   \* Spec: a base operator acts on 1 .. MaxBaseWires wires
MaxControl == 2     \* Spec: control wires passed to the constructor
MaxWork == 1        \* Spec: work wires passed to the constructor
MaxCVLen == 2       \* Spec: length of a control_values argument
MaxParam == 1       \* a base parameter is one of 0 .. MaxParam
HeapWires == 2      \* HeapSpec: wire labels are 0 .. HeapWires-1
MaxOps == 2         \* HeapSpec: Controlled objects on the heap
MaxPowOps == 1      \* HeapSpec: base.pow(z) returns at most this many operators
TypeBases == 3      \* TypeSpec: base operator objects on the heap
TypeOps == 3        \* TypeSpec: Controlled objects on the heap
QueryWires == 4     \* QuerySpec: wire labels are 0 .. QueryWires-1
MaxQueryControl == 2 \* QuerySpec: control wires of the operator
MaxDerived == 3     \* DeriveSpec: Controlled objects on the heap
MaxPowAngles == 2   \* DeriveSpec: base.pow(z) returns at most this many operators
MaxNameOps == 2     \* NameSpec: Controlled objects on the heap

----------------------------------------------------------------------------
(* Python values and sequences *)

Wire == 0 .. (NumWires - 1)
Data == 0 .. MaxParam

Range(s) == {s[i] : i \in 1 .. Len(s)}

\* Wires(...): an ordered collection of unique wire labels
WiresOfLen(k) == {s \in [1 .. k -> Wire] : \A i, j \in 1 .. k : i # j => s[i] # s[j]}
WiresUpTo(n) == UNION {WiresOfLen(k) : k \in 0 .. n}

\* s[a:b] for 0 <= a <= b
PySlice(s, a, b) == SubSeq(s, a + 1, IF b < Len(s) THEN b ELSE Len(s))

\* s[a:]
PySliceFrom(s, a) == SubSeq(s, a + 1, Len(s))

PyTrue == [type |-> "bool", val |-> 1]
PyFalse == [type |-> "bool", val |-> 0]
PyInt(n) == [type |-> "int", val |-> n]
PyBool(b) == IF b THEN PyTrue ELSE PyFalse

\* Python ==, on bool and int values (bool is a subclass of int)
PyEq(a, b) == a.val = b.val

\* Python truthiness: `if val`, `not val`, all(...)
Truthy(v) == v.val # 0

\* set(control_values).issubset({False, True})
IsSubsetOfFalseTrue(cv) == \A k \in 1 .. Len(cv) : \E b \in {PyFalse, PyTrue} : PyEq(cv[k], b)

\* the values a caller may put in a control_values list
CVal == {PyTrue, PyFalse, PyInt(1), PyInt(2)}

\* the characters of a legacy control_values string
CChar == {"0", "1", "x"}

SeqsUpTo(S, n) == UNION {[1 .. k -> S] : k \in 0 .. n}

\* the control_values argument: None, a list, or a string
CVArg ==
    {[form |-> "None", vals |-> <<>>]}
    \cup {[form |-> "list", vals |-> v] : v \in SeqsUpTo(CVal, MaxCVLen)}
    \cup {[form |-> "str", vals |-> v] : v \in SeqsUpTo(CChar, MaxCVLen)}

----------------------------------------------------------------------------
(* The base operators (external collaborators) *)

Capability == {"OperationObservable", "Operation", "Observable", "Operator"}

IsOperation(cap) == cap \in {"OperationObservable", "Operation"}
IsObservable(cap) == cap \in {"OperationObservable", "Observable"}

\* the class name of a base operator with the given capabilities
ClassName(cap) ==
    CASE cap = "OperationObservable" -> "PauliRot"
      [] cap = "Operation" -> "RX"
      [] cap = "Observable" -> "Hermitian"
      [] OTHER -> "TempOperator"

\* base.name: Operation appends ".inv" while inverted
BaseName(b) == IF b.inverse THEN b.name \o ".inv" ELSE b.name

----------------------------------------------------------------------------
(* The heap as a value, so that constructors can be composed *)

H == [bases |-> bases, ops |-> ops, types |-> types, typeCache |-> typeCache, queue |-> queue]

SetH(h) ==
    /\ bases' = h.bases
    /\ ops' = h.ops
    /\ types' = h.types
    /\ typeCache' = h.typeCache
    /\ queue' = h.queue

\* the class Controlled itself; derived classes are 1 .. Len(types)
ControlledCls == 0

\* a class attribute that is None
NoType == -1

----------------------------------------------------------------------------
(* Controlled.__new__ : the class of the new instance *)

OperationObservableMixins == <<"ControlledOperation", "Controlled", "Observable", "Operation">>
OperationMixins == <<"ControlledOperation", "Controlled", "Operation">>
ObservableMixins == <<"Controlled", "Observable">>

\* a mutant: the cache is never consulted, every construction builds a class
CachedTypeNoCache(h, attr, mixins) ==
    [h |-> [h EXCEPT !.types = Append(@, mixins), !.typeCache[attr] = Len(h.types) + 1],
     cls |-> Len(h.types) + 1]

\* if cls.<attr> is None: cls.<attr> = type("Controlled", mixins, ...); the class is cls.<attr>
CachedType(h, attr, mixins) ==
    IF h.typeCache[attr] = NoType
    THEN [h |-> [h EXCEPT !.types = Append(@, mixins), !.typeCache[attr] = Len(h.types) + 1],
          cls |-> Len(h.types) + 1]
    ELSE [h |-> h, cls |-> h.typeCache[attr]]

Controlled__new__(h, cap) ==
    IF IsOperation(cap)
    THEN IF IsObservable(cap)
         THEN CachedType(h, "_operation_observable_type", OperationObservableMixins)
         ELSE CachedType(h, "_operation_type", OperationMixins)
    ELSE IF IsObservable(cap)
         THEN CachedType(h, "_observable_type", ObservableMixins)
         ELSE [h |-> h, cls |-> ControlledCls]

\* whether ControlledOperation is mixed into class cls (inv, _inverse, name)
HasControlledOperation(h, cls) ==
    cls # ControlledCls /\ "ControlledOperation" \in Range(h.types[cls])

----------------------------------------------------------------------------
(* Controlled.__init__ *)

LengthMessage == "control_values should be the same length as control_wires"
ValueMessage == "control_values can only take on True or False"
SharedMessage == "The control wires must be different from the base operation wires."

\* Wires.shared_wires([a, b])
shared_wires(a, b) == Range(a) \cap Range(b)

\* control_values as __init__ computes it before its assertions
NormalizedControlValues(control_wires, control_values) ==
    CASE control_values.form = "None" -> [k \in 1 .. Len(control_wires) |-> PyTrue]
      [] control_values.form = "str" ->
            [k \in 1 .. Len(control_values.vals) |-> PyBool(control_values.vals[k] = "1")]
      [] OTHER -> control_values.vals

\* a mutant: the shared-wires assertion is missing
InitErrorNoSharedCheck(base_wires, control_wires, control_values) ==
    LET cv == NormalizedControlValues(control_wires, control_values)
    IN  IF control_values.form # "None" /\ Len(cv) # Len(control_wires) THEN LengthMessage
        ELSE IF control_values.form # "None" /\ ~IsSubsetOfFalseTrue(cv) THEN ValueMessage
        ELSE ""

\* the assertion of __init__ that fails first, "" when none does
InitError(base_wires, control_wires, control_values) ==
    LET cv == NormalizedControlValues(control_wires, control_values)
    IN  IF control_values.form # "None" /\ Len(cv) # Len(control_wires) THEN LengthMessage
        ELSE IF control_values.form # "None" /\ ~IsSubsetOfFalseTrue(cv) THEN ValueMessage
        ELSE IF shared_wires(base_wires, control_wires) # {} THEN SharedMessage
        ELSE ""

\* __init__ on a fresh instance of class cls: [h, err, id]
Controlled__init__(h, cls, base, control_wires, control_values, work_wires, do_queue) ==
    LET err == InitError(h.bases[base].wires, control_wires, control_values)
        id == Len(h.ops) + 1
        self == [cls |-> cls,
                 base |-> base,
                 control_wires |-> control_wires,
                 control_values |-> NormalizedControlValues(control_wires, control_values),
                 work_wires |-> work_wires,
                 name |-> "C" \o BaseName(h.bases[base])]
    IN  IF err # ""
        THEN [h |-> h, err |-> err, id |-> 0]
        ELSE [h |-> [h EXCEPT !.ops = Append(@, self),
                              !.queue = IF do_queue THEN Append(@, id) ELSE @],
              err |-> "", id |-> id]

\* Controlled(base, control_wires, control_values, work_wires, do_queue): __new__ then __init__
Controlled(h, base, control_wires, control_values, work_wires, do_queue) ==
    LET n == Controlled__new__(h, h.bases[base].cap)
    IN  Controlled__init__(n.h, n.cls, base, control_wires, control_values, work_wires, do_queue)

ListArg(vals) == [form |-> "list", vals |-> vals]
NoneArg == [form |-> "None", vals |-> <<>>]

Gate(g, a) == [gate |-> g, arg |-> a]
Ret(call, self, err, out) == [call |-> call, self |-> self, err |-> err, out |-> out]

----------------------------------------------------------------------------
(* Properties of an instance *)

\* Wires.__add__ as the data model describes it: concatenation, order preserved
WiresAdd(a, b) == a \o b

\* Controlled.wires
wires(h, o) ==
    WiresAdd(WiresAdd(h.ops[o].control_wires, h.bases[h.ops[o].base].wires), h.ops[o].work_wires)

----------------------------------------------------------------------------
(* Operations on an instance, as functions of the heap *)

WiresMessage == "needs at least num_control_and_base wires"

\* a mutant: the length assertion is missing
wires_setterNoAssert(h, o, new_wires) ==
    LET self == h.ops[o]
        num_control == Len(self.control_wires)
        num_base == Len(h.bases[self.base].wires)
        num_control_and_base == num_control + num_base
    IN  [h |-> [h EXCEPT
                  !.ops[o].control_wires = PySlice(new_wires, 0, num_control),
                  !.bases[self.base].wires = PySlice(new_wires, num_control, num_control_and_base),
                  !.ops[o].work_wires =
                      IF Len(new_wires) > num_control_and_base
                      THEN PySliceFrom(new_wires, num_control_and_base)
                      ELSE <<>>],
         err |-> ""]

\* Controlled._wires setter: [h, err]
wires_setter(h, o, new_wires) ==
    LET self == h.ops[o]
        num_control == Len(self.control_wires)
        num_base == Len(h.bases[self.base].wires)
        num_control_and_base == num_control + num_base
    IN  IF ~(num_control_and_base <= Len(new_wires))
        THEN [h |-> h, err |-> WiresMessage]
        ELSE [h |-> [h EXCEPT
                       !.ops[o].control_wires = PySlice(new_wires, 0, num_control),
                       !.bases[self.base].wires =
                           PySlice(new_wires, num_control, num_control_and_base),
                       !.ops[o].work_wires =
                           IF Len(new_wires) > num_control_and_base
                           THEN PySliceFrom(new_wires, num_control_and_base)
                           ELSE <<>>],
              err |-> ""]

\* Controlled.data setter: self.base.data = new_data
data_setter(h, o, new_data) == [h EXCEPT !.bases[h.ops[o].base].data = new_data]

\* ControlledOperation._inverse setter
inverse_setter(h, o, boolean) ==
    LET b == h.ops[o].base
        h1 == [h EXCEPT !.bases[b].inverse = boolean]
    IN  [h1 EXCEPT !.ops[o].name = "C" \o BaseName(h1.bases[b])]

\* ControlledOperation.inv: base.inv() flips the base's inverse flag in place
inv(h, o) == inverse_setter(h, o, ~h.bases[h.ops[o].base].inverse)

\* copy(base) of a base operator: a new object with the same attributes
BaseCopy(b) == b

\* a mutant: the clone keeps the original's base object
Controlled__copy__Shallow(h, o) ==
    [h |-> [h EXCEPT !.ops = Append(@, h.ops[o])], id |-> Len(h.ops) + 1]

\* Controlled.__copy__: [h, id]; the clone is not queued
Controlled__copy__(h, o) ==
    LET nb == Len(h.bases) + 1
    IN  [h |-> [h EXCEPT !.bases = Append(@, BaseCopy(h.bases[h.ops[o].base])),
                         !.ops = Append(@, [h.ops[o] EXCEPT !.base = nb])],
         id |-> Len(h.ops) + 1]

\* base.adjoint(): a new operator of the same class on the same wires with the parameter
\* negated; parameter d stands for the angle d - MaxParam/2, whose negation is MaxParam - d
BaseAdjoint(b) == [b EXCEPT !.data = MaxParam - @]

\* a mutant: the adjoint is built like the decomposition's operator, without control_values
adjointDefaultValues(h, o) ==
    LET self == h.ops[o]
        h1 == [h EXCEPT !.bases = Append(@, BaseAdjoint(h.bases[self.base]))]
    IN  Controlled(h1, Len(h1.bases), self.control_wires, NoneArg, self.work_wires, TRUE)

\* Controlled.adjoint: [h, err, id]
adjoint(h, o) ==
    LET self == h.ops[o]
        h1 == [h EXCEPT !.bases = Append(@, BaseAdjoint(h.bases[self.base]))]
    IN  Controlled(h1, Len(h1.bases), self.control_wires, ListArg(self.control_values),
                   self.work_wires, TRUE)

\* base.pow(z): new operators of the same class on the same wires, one per angle of `angles`
BasePow(b, angles) == [k \in 1 .. Len(angles) |-> [b EXCEPT !.data = angles[k]]]

RECURSIVE powWrap(_, _, _, _)
\* the list comprehension of Controlled.pow over base_pow[k ..]: [h, out]
powWrap(h, o, first, last) ==
    IF first > last
    THEN [h |-> h, out |-> <<>>]
    ELSE LET self == h.ops[o]
             r == Controlled(h, first, self.control_wires, ListArg(self.control_values),
                             self.work_wires, TRUE)
             rest == powWrap(r.h, o, first + 1, last)
         IN  [h |-> rest.h, out |-> <<Gate("Controlled", r.id)>> \o rest.out]

\* Controlled.pow, where base.pow(z) returns the operators BasePow(base, angles): [h, out]
pow(h, o, angles) ==
    LET h1 == [h EXCEPT !.bases = @ \o BasePow(h.bases[h.ops[o].base], angles)]
    IN  powWrap(h1, o, Len(h.bases) + 1, Len(h1.bases))

\* all(self.control_values)
AllTrue(cv) == \A k \in 1 .. Len(cv) : Truthy(cv[k])

RECURSIVE XGates(_, _)
\* [qml.PauliX(w) for w, val in zip(control_wires, control_values) if not val]
XGates(control_wires, control_values) ==
    IF control_wires = <<>> \/ control_values = <<>>
    THEN <<>>
    ELSE (IF ~Truthy(Head(control_values)) THEN <<Gate("PauliX", Head(control_wires))>> ELSE <<>>)
         \o XGates(Tail(control_wires), Tail(control_values))

UndefinedMessage == "DecompositionUndefinedError"

\* a mutant: the X gates are put on the True-valued control wires
decompositionXOnTrue(h, o) ==
    LET self == h.ops[o]
        flipped == [k \in 1 .. Len(self.control_values) |-> PyBool(~Truthy(self.control_values[k]))]
        x == XGates(self.control_wires, flipped)
        r == Controlled(h, self.base, self.control_wires, NoneArg, self.work_wires, TRUE)
    IN  IF ~AllTrue(self.control_values)
        THEN [h |-> r.h, err |-> r.err, out |-> x \o <<Gate("Controlled", r.id)>> \o x]
        ELSE [h |-> h, err |-> UndefinedMessage, out |-> <<>>]

\* Controlled.decomposition: [h, err, out]
decomposition(h, o) ==
    LET self == h.ops[o]
        x == XGates(self.control_wires, self.control_values)
        r == Controlled(h, self.base, self.control_wires, NoneArg, self.work_wires, TRUE)
    IN  IF ~AllTrue(self.control_values)
        THEN [h |-> r.h, err |-> r.err, out |-> x \o <<Gate("Controlled", r.id)>> \o x]
        ELSE [h |-> h, err |-> UndefinedMessage, out |-> <<>>]

----------------------------------------------------------------------------
(* Queries: control_int, matrix, eigvals.  A matrix is a sequence of rows. *)

RECURSIVE Pow2(_)
\* 2 ** n
Pow2(n) == IF n = 0 THEN 1 ELSE 2 * Pow2(n - 1)

\* reversed(s)
Reversed(s) == [k \in 1 .. Len(s) |-> s[Len(s) + 1 - k]]

RECURSIVE SumPowers(_, _)
\* sum(2**i for i, val in enumerate(s) if val), over the indices i, i+1, ...
SumPowers(s, i) ==
    IF i >= Len(s)
    THEN 0
    ELSE (IF Truthy(s[i + 1]) THEN Pow2(i) ELSE 0) + SumPowers(s, i + 1)

\* a mutant: control_values is not reversed, the first control wire is the low bit
control_intNotReversed(control_values) == SumPowers(control_values, 0)

\* Controlled._control_int
control_int(control_values) == SumPowers(Reversed(control_values), 0)

\* the gates a base operator can be in QuerySpec: its wires, capabilities, matrix, eigenvalues
Gates == {"PauliX", "PauliZ", "CNOT", "TempOperator"}

GateWires(name) == IF name = "CNOT" THEN 2 ELSE 1

GateCap(name) ==
    CASE name \in {"PauliX", "PauliZ"} -> "OperationObservable"
      [] name = "CNOT" -> "Operation"
      [] OTHER -> "Operator"

\* base.matrix()
BaseMatrix(b) ==
    CASE b.name = "PauliX" -> <<<<0, 1>>, <<1, 0>>>>
      [] b.name = "PauliZ" -> <<<<1, 0>>, <<0, -1>>>>
      [] b.name = "CNOT" -> <<<<1, 0, 0, 0>>, <<0, 1, 0, 0>>, <<0, 0, 0, 1>>, <<0, 0, 1, 0>>>>
      [] OTHER -> <<<<1, 2>>, <<0, 3>>>>

\* base.eigvals()
BaseEigvals(b) ==
    CASE b.name = "PauliX" -> <<1, -1>>
      [] b.name = "PauliZ" -> <<1, -1>>
      [] b.name = "CNOT" -> <<1, 1, 1, -1>>
      [] OTHER -> <<1, 3>>

\* a sequence given by its elements, evaluated once
Tuple(f) == f \o <<>>

\* qmlmath.eye(n)
eye(n) == Tuple([i \in 1 .. n |-> Tuple([j \in 1 .. n |-> IF i = j THEN 1 ELSE 0])])

RECURSIVE Offset(_, _)
\* the number of rows of the first k blocks
Offset(blocks, k) == IF k = 0 THEN 0 ELSE Offset(blocks, k - 1) + Len(blocks[k])

\* qmlmath.block_diag(blocks), for square blocks
block_diag(blocks) ==
    LET n == Offset(blocks, Len(blocks))
        BlockOf(i) == CHOOSE k \in 1 .. Len(blocks) :
                          Offset(blocks, k - 1) < i /\ i <= Offset(blocks, k)
    IN  Tuple([i \in 1 .. n |-> Tuple([j \in 1 .. n |->
            IF BlockOf(i) = BlockOf(j)
            THEN blocks[BlockOf(i)][i - Offset(blocks, BlockOf(i) - 1)]
                                   [j - Offset(blocks, BlockOf(i) - 1)]
            ELSE 0])])

\* a mutant: the base block is always the last diagonal block
matrixBlockLast(h, o) ==
    LET self == h.ops[o]
        base_matrix == BaseMatrix(h.bases[self.base])
        num_target_states == Pow2(Len(h.bases[self.base].wires))
        num_control_states == Pow2(Len(self.control_wires))
        total_matrix_size == num_control_states * num_target_states
    IN  block_diag(<<eye(total_matrix_size - num_target_states), base_matrix>>)

\* Controlled.matrix(wire_order=None): the canonical matrix
matrix(h, o) ==
    LET self == h.ops[o]
        base_matrix == BaseMatrix(h.bases[self.base])
        num_target_states == Pow2(Len(h.bases[self.base].wires))
        num_control_states == Pow2(Len(self.control_wires))
        total_matrix_size == num_control_states * num_target_states
        padding_left == control_int(self.control_values) * num_target_states
        padding_right == total_matrix_size - padding_left - num_target_states
        left_pad == eye(padding_left)
        right_pad == eye(padding_right)
    IN  block_diag(<<left_pad, base_matrix, right_pad>>)

\* np.ones(n)
ones(n) == [k \in 1 .. n |-> 1]

\* a mutant: the eigenvalues follow the matrix, the base's at block control_int
eigvalsAtControlInt(h, o) ==
    LET self == h.ops[o]
        base_eigvals == BaseEigvals(h.bases[self.base])
        total == Pow2(Len(h.bases[self.base].wires) + Len(self.control_wires))
        before == control_int(self.control_values) * Len(base_eigvals)
    IN  ones(before) \o base_eigvals \o ones(total - before - Len(base_eigvals))

\* Controlled.eigvals
eigvals(h, o) ==
    LET self == h.ops[o]
        base_eigvals == BaseEigvals(h.bases[self.base])
        num_target_wires == Len(h.bases[self.base].wires)
        num_control_wires == Len(self.control_wires)
        total == Pow2(num_target_wires + num_control_wires)
    IN  ones(total - Len(base_eigvals)) \o base_eigvals

----------------------------------------------------------------------------
(* The actions: one per operation a caller can invoke *)

NoArgs == [base |-> 0, control_wires |-> <<>>, control_values |-> NoneArg,
           work_wires |-> <<>>, do_queue |-> FALSE]

EmptyCache == [attr \in {"_operation_type", "_operation_observable_type", "_observable_type"}
                  |-> NoType]

\* a base operator as its constructor leaves it
Operator(cap, name, w, d) ==
    [cap |-> cap, name |-> name, wires |-> w, data |-> d, inverse |-> FALSE]

\* nothing constructed yet
Init ==
    /\ bases = <<>>
    /\ ops = <<>>
    /\ types = <<>>
    /\ typeCache = EmptyCache
    /\ queue = <<>>
    /\ clones = {}
    /\ args = NoArgs
    /\ ret = Ret("", 0, "", <<>>)

Ops == 1 .. Len(ops)

\* a caller creates an operator to be controlled
NewBase(cap, w, d) ==
    /\ bases' = Append(bases, Operator(cap, ClassName(cap), w, d))
    /\ ret' = Ret("Operator", 0, "", <<>>)
    /\ args' = NoArgs
    /\ UNCHANGED <<ops, types, typeCache, queue, clones>>

\* a caller evaluates Controlled(base, control_wires, control_values, work_wires, do_queue)
Construct(base, control_wires, control_values, work_wires, do_queue) ==
    /\ LET r == Controlled(H, base, control_wires, control_values, work_wires, do_queue)
       IN  /\ ret' = Ret("Controlled", r.id, r.err, <<>>)
           /\ SetH(r.h)
    /\ args' = NoArgs
    /\ UNCHANGED clones

\* op.wires = new_wires (Operator's setter assigns self._wires)
SetWires(o, new_wires) ==
    LET r == wires_setter(H, o, new_wires)
    IN  /\ ret' = Ret("_wires.setter", o, r.err, <<>>)
        /\ SetH(r.h)
        /\ args' = NoArgs
        /\ UNCHANGED clones

\* op.data = new_data
SetData(o, new_data) ==
    /\ ret' = Ret("data.setter", o, "", <<>>)
    /\ SetH(data_setter(H, o, new_data))
    /\ args' = NoArgs
    /\ UNCHANGED clones

\* op.inv()
Inv(o) ==
    /\ HasControlledOperation(H, ops[o].cls)
    /\ ret' = Ret("inv", o, "", <<>>)
    /\ SetH(inv(H, o))
    /\ args' = NoArgs
    /\ UNCHANGED clones

\* op._inverse = boolean (also reached through Operation.inverse's setter)
SetInverse(o, boolean) ==
    /\ HasControlledOperation(H, ops[o].cls)
    /\ ret' = Ret("_inverse.setter", o, "", <<>>)
    /\ SetH(inverse_setter(H, o, boolean))
    /\ args' = NoArgs
    /\ UNCHANGED clones

\* base.inv() called on the base operator itself, not through a Controlled: Operation.inv
\* flips the operator's inverse flag in place; no Controlled instance is told
BaseInv(b) ==
    /\ IsOperation(bases[b].cap)
    /\ bases' = [bases EXCEPT ![b].inverse = ~@]
    /\ ret' = Ret("Operation.inv", 0, "", <<>>)
    /\ args' = NoArgs
    /\ UNCHANGED <<ops, types, typeCache, queue, clones>>

\* copy(op)
Copy(o) ==
    LET r == Controlled__copy__(H, o)
    IN  /\ ret' = Ret("__copy__", o, "", <<Gate("Controlled", r.id)>>)
        /\ SetH(r.h)
        /\ args' = NoArgs
        /\ clones' = clones \cup {<<o, r.id>>}

\* op.adjoint()
Adjoint(o) ==
    /\ LET r == adjoint(H, o)
       IN  /\ ret' = Ret("adjoint", o, r.err,
                         IF r.err = "" THEN <<Gate("Controlled", r.id)>> ELSE <<>>)
           /\ SetH(r.h)
    /\ args' = NoArgs
    /\ UNCHANGED clones

\* op.pow(z), where base.pow(z) returns one operator per angle of `angles`
Pow(o, angles) ==
    /\ LET r == pow(H, o, angles)
       IN  /\ ret' = Ret("pow", o, "", r.out)
           /\ SetH(r.h)
    /\ args' = NoArgs
    /\ UNCHANGED clones

\* op.decomposition()
Decomposition(o) ==
    /\ LET r == decomposition(H, o)
       IN  /\ ret' = Ret("decomposition", o, r.err, r.out)
           /\ SetH(r.h)
    /\ args' = NoArgs
    /\ UNCHANGED clones

\* op._control_int
ControlInt(o) ==
    /\ ret' = Ret("_control_int", o, "", control_int(ops[o].control_values))
    /\ args' = NoArgs
    /\ UNCHANGED <<bases, ops, types, typeCache, queue, clones>>

\* op.matrix()
Matrix(o) ==
    /\ ret' = Ret("matrix", o, "", matrix(H, o))
    /\ args' = NoArgs
    /\ UNCHANGED <<bases, ops, types, typeCache, queue, clones>>

\* op.eigvals()
Eigvals(o) ==
    /\ ret' = Ret("eigvals", o, "", eigvals(H, o))
    /\ args' = NoArgs
    /\ UNCHANGED <<bases, ops, types, typeCache, queue, clones>>

----------------------------------------------------------------------------
(* Spec: the life of one operator.  A base operator exists and a caller is  *)
(* about to construct a Controlled over it from the arguments `args`; the   *)
(* operator, once constructed, is mutated in place.                         *)

CtorArgs ==
    [base : {1}, control_wires : WiresUpTo(MaxControl), control_values : CVArg,
     work_wires : WiresUpTo(MaxWork), do_queue : BOOLEAN]

SpecInit ==
    /\ \E cap \in Capability, w \in WiresUpTo(MaxBaseWires) \ {<<>>} :
          bases = <<Operator(cap, ClassName(cap), w, 0)>>
    /\ ops = <<>>
    /\ types = <<>>
    /\ typeCache = EmptyCache
    /\ queue = <<>>
    /\ clones = {}
    /\ args \in CtorArgs
    /\ ret = Ret("Operator", 0, "", <<>>)

Next ==
    \/ /\ args # NoArgs
       /\ Construct(args.base, args.control_wires, args.control_values, args.work_wires,
                    args.do_queue)
    \/ \E o \in Ops, w \in WiresUpTo(NumWires) : SetWires(o, w)
    \/ \E o \in Ops, d \in Data : SetData(o, d)
    \/ \E o \in Ops : Inv(o)
    \/ \E o \in Ops, b \in BOOLEAN : SetInverse(o, b)

Spec == SpecInit /\ [][Next]_vars

----------------------------------------------------------------------------
(* HeapSpec: the first operator and the operators derived from it by copy,  *)
(* adjoint, pow and decomposition, all mutated in place in any order.       *)

HeapWire == 0 .. (HeapWires - 1)
HeapWiresUpTo(n) == {w \in WiresUpTo(n) : Range(w) \subseteq HeapWire}
HeapCVArg == {NoneArg} \cup {ListArg(v) : v \in SeqsUpTo({PyTrue, PyFalse}, 1)}

HeapNext ==
    \/ \E cap \in {"Operation", "Observable"}, w \in HeapWiresUpTo(1) \ {<<>>} :
          bases = <<>> /\ NewBase(cap, w, 0)
    \/ \E b \in 1 .. Len(bases), cw \in HeapWiresUpTo(1), cv \in HeapCVArg :
          ops = <<>> /\ Construct(b, cw, cv, <<>>, TRUE)
    \/ \E o \in Ops, w \in HeapWiresUpTo(HeapWires) : SetWires(o, w)
    \/ \E o \in Ops, d \in Data : SetData(o, d)
    \/ \E o \in Ops : Inv(o)
    \/ \E o \in Ops, b \in BOOLEAN : SetInverse(o, b)
    \/ \E o \in Ops : Len(ops) < MaxOps /\ Copy(o)
    \/ \E o \in Ops : Len(ops) < MaxOps /\ Adjoint(o)
    \/ \E o \in Ops, angles \in SeqsUpTo(Data, MaxPowOps) :
          Len(ops) + Len(angles) <= MaxOps /\ Pow(o, angles)
    \/ \E o \in Ops : Len(ops) < MaxOps /\ Decomposition(o)

HeapSpec == Init /\ [][HeapNext]_vars

----------------------------------------------------------------------------
(* TypeSpec: callers construct operators over bases of every capability     *)
(* combination, and operators are derived from them; nothing is mutated.    *)

TypeNext ==
    \/ \E cap \in Capability : Len(bases) < TypeBases /\ NewBase(cap, <<0>>, 0)
    \/ \E b \in 1 .. Len(bases), cv \in {NoneArg, ListArg(<<PyFalse>>), ListArg(<<>>)} :
          Len(ops) < TypeOps /\ Construct(b, <<1>>, cv, <<>>, TRUE)
    \/ \E o \in Ops : Len(ops) < TypeOps /\ Len(bases) < TypeBases /\ Copy(o)
    \/ \E o \in Ops : Len(ops) < TypeOps /\ Len(bases) < TypeBases /\ Adjoint(o)
    \/ \E o \in Ops, angles \in SeqsUpTo({0}, 1) :
          Len(ops) + Len(angles) <= TypeOps /\ Len(bases) + Len(angles) <= TypeBases
          /\ Pow(o, angles)
    \/ \E o \in Ops : Len(ops) < TypeOps /\ Decomposition(o)

TypeSpec == Init /\ [][TypeNext]_vars

----------------------------------------------------------------------------
(* QuerySpec: one operator over a gate with a known matrix, constructed     *)
(* from any valid arguments; it is queried and decomposed, and the operator *)
(* its decomposition returns is queried too.                                *)

QueryWire == 0 .. (QueryWires - 1)
QueryWiresUpTo(n) == {w \in UNION {[1 .. k -> QueryWire] : k \in 0 .. n} :
                         \A i, j \in 1 .. Len(w) : i # j => w[i] # w[j]}
BoolLists(n) == [1 .. n -> {PyTrue, PyFalse}]

\* the heap after Controlled(gate on base_wires, control_wires, control_values, work_wires)
Constructed(h) ==
    /\ bases = h.bases
    /\ ops = h.ops
    /\ types = h.types
    /\ typeCache = h.typeCache
    /\ queue = h.queue
    /\ clones = {}
    /\ args = NoArgs
    /\ ret = Ret("Controlled", 1, "", <<>>)

EmptyHeap(base) ==
    [bases |-> <<base>>, ops |-> <<>>, types |-> <<>>, typeCache |-> EmptyCache, queue |-> <<>>]

QueryInit ==
    \E g \in Gates, cw \in QueryWiresUpTo(MaxQueryControl), ww \in QueryWiresUpTo(MaxWork) :
      \E bw \in {w \in QueryWiresUpTo(GateWires(g)) : Len(w) = GateWires(g)},
         cv \in {NoneArg} \cup {ListArg(v) : v \in BoolLists(Len(cw))} :
        LET r == Controlled(EmptyHeap(Operator(GateCap(g), g, bw, 0)), 1, cw, cv, ww, TRUE)
        IN  r.err = "" /\ Constructed(r.h)

QueryNext ==
    \/ \E o \in Ops : ControlInt(o)
    \/ \E o \in Ops : Matrix(o)
    \/ \E o \in Ops : Eigvals(o)
    \/ Len(ops) = 1 /\ Decomposition(1)

QuerySpec == QueryInit /\ [][QueryNext]_vars

----------------------------------------------------------------------------
(* DeriveSpec: one operator constructed from any valid arguments, and the    *)
(* operators derived from it, and from those, by adjoint() and pow(z).       *)

DeriveInit ==
    \E cap \in Capability, bw \in WiresUpTo(MaxBaseWires) \ {<<>>}, d \in Data :
      \E cw \in WiresUpTo(MaxControl), cv \in CVArg, ww \in WiresUpTo(MaxWork) :
        LET r == Controlled(EmptyHeap(Operator(cap, ClassName(cap), bw, d)), 1, cw, cv, ww, TRUE)
        IN  r.err = "" /\ Constructed(r.h)

DeriveNext ==
    \/ \E o \in Ops : Len(ops) < MaxDerived /\ Adjoint(o)
    \/ \E o \in Ops, angles \in SeqsUpTo(Data, MaxPowAngles) :
          Len(ops) + Len(angles) <= MaxDerived /\ Pow(o, angles)

DeriveSpec == DeriveInit /\ [][DeriveNext]_vars

----------------------------------------------------------------------------
(* NameSpec: one operator constructed over an Operation-capable base; the    *)
(* base is inverted through the operator, directly, and through the operator *)
(* that decomposition() returns, which shares the base.                      *)

NameInit ==
    \E cap \in {c \in Capability : IsOperation(c)}, bw \in WiresUpTo(MaxBaseWires) \ {<<>>} :
      \E cw \in WiresUpTo(MaxControl) :
        \E cv \in {NoneArg} \cup {ListArg(v) : v \in BoolLists(Len(cw))} :
          LET r == Controlled(EmptyHeap(Operator(cap, ClassName(cap), bw, 0)), 1, cw, cv,
                              <<>>, TRUE)
          IN  r.err = "" /\ Constructed(r.h)

NameNext ==
    \/ \E o \in Ops : Inv(o)
    \/ \E o \in Ops, b \in BOOLEAN : SetInverse(o, b)
    \/ \E b \in 1 .. Len(bases) : BaseInv(b)
    \/ \E o \in Ops : Len(ops) < MaxNameOps /\ Decomposition(o)

NameSpec == NameInit /\ [][NameNext]_vars

----------------------------------------------------------------------------
(* Claims about construction and wire reassignment (Spec) *)

\* (a) control_values is supplied and its length differs from the number of control wires
LengthDiffers(a) ==
    a.control_values.form # "None" /\ Len(a.control_values.vals) # Len(a.control_wires)

\* (b) control_values is supplied and some control value is not True/False; a value of a
\* list is True/False when it equals one of them as Python compares (1 == True), and the
\* values of the legacy string form are the booleans (character == "1")
SomeValueNotBoolean(a) ==
    /\ a.control_values.form = "list"
    /\ \E k \in 1 .. Len(a.control_values.vals) : a.control_values.vals[k].val \notin {0, 1}

\* (c) a control wire is also one of base's wires
ControlWireOnBase(a) ==
    \E i \in 1 .. Len(a.control_wires), j \in 1 .. Len(bases[a.base].wires) :
        a.control_wires[i] = bases[a.base].wires[j]

C1Step ==
    IF LengthDiffers(args) \/ SomeValueNotBoolean(args) \/ ControlWireOnBase(args)
    THEN /\ ret'.call = "Controlled"
         /\ ret'.err # ""
         /\ ops' = ops
         /\ bases' = bases
         /\ queue' = queue
    ELSE /\ ret'.call = "Controlled"
         /\ ret'.err = ""
         /\ Len(ops') = Len(ops) + 1
         /\ ops'[Len(ops')].base = args.base
         /\ ops'[Len(ops')].control_wires = args.control_wires
         /\ ops'[Len(ops')].work_wires = args.work_wires
         /\ queue' = IF args.do_queue THEN Append(queue, Len(ops')) ELSE queue

\* C1: the constructor called with `args` raises an assertion error, storing no instance
\* and queuing nothing, exactly when (a), (b) or (c) holds of the arguments; otherwise it
\* succeeds, stores the instance and queues it if do_queue.
C1_ConstructionValidates == [][args # NoArgs => C1Step]_vars

\* a construction that was rejected because a control wire is a base wire
C1_Witness ==
    /\ ret.call = "Controlled"
    /\ ret.err = SharedMessage
    /\ ops = <<>>
    /\ queue = <<>>

Disjoint(a, b) == Range(a) \cap Range(b) = {}

\* C2 (as stated): every operator on the heap has as many control values as control wires,
\* pairwise disjoint control, base and work wires, and wires = control ++ base ++ work.
C2_WireInvariant ==
    \A o \in Ops :
        LET self == ops[o]
            base_wires == bases[self.base].wires
        IN  /\ Len(self.control_values) = Len(self.control_wires)
            /\ Disjoint(self.control_wires, base_wires)
            /\ Disjoint(self.control_wires, self.work_wires)
            /\ Disjoint(base_wires, self.work_wires)
            /\ wires(H, o) = self.control_wires \o base_wires \o self.work_wires

C10Effect(o, new_wires) ==
    LET self == ops[o]
        b == self.base
        c == Len(self.control_wires)
        t == Len(bases[b].wires)
        L == Len(new_wires)
    IN  IF L < c + t
        THEN /\ ret'.err # ""
             /\ ops'[o].control_wires = self.control_wires
             /\ bases'[b].wires = bases[b].wires
             /\ ops'[o].work_wires = self.work_wires
             /\ ops'[o].control_values = self.control_values
        ELSE /\ ret'.err = ""
             /\ ops'[o].control_wires = [k \in 1 .. c |-> new_wires[k]]
             /\ bases'[b].wires = [k \in 1 .. t |-> new_wires[c + k]]
             /\ ops'[o].work_wires = [k \in 1 .. (L - c - t) |-> new_wires[c + t + k]]
             /\ ops'[o].control_values = self.control_values

\* C10: assigning L wires to an operator with c control and t base wires fails and changes no
\* wires if L < c + t; otherwise the first c become the control wires, the next t the base's
\* wires, the remaining L - c - t the work wires, and control_values is unchanged.
C10_WireReassignment ==
    [][\A o \in Ops, w \in WiresUpTo(NumWires) : SetWires(o, w) => C10Effect(o, w)]_vars

\* a reassignment that succeeded, with control, base and work wires all present
C10_Witness ==
    /\ ret.call = "_wires.setter"
    /\ ret.err = ""
    /\ ops[ret.self].control_wires # <<>>
    /\ ops[ret.self].work_wires # <<>>

----------------------------------------------------------------------------
(* Claims about copies (HeapSpec) and derived classes (TypeSpec) *)

\* what copy independence protects of operator o: its base's parameters and wires, its
\* control wires and its work wires
View(bs, os, o) ==
    <<bs[os[o].base].data, bs[os[o].base].wires, os[o].control_wires, os[o].work_wires>>

Mutators == {"data.setter", "_wires.setter", "inv", "_inverse.setter"}

C7Step ==
    /\ \A p \in clones' : ops'[p[1]].base # ops'[p[2]].base
    /\ \A p \in clones :
          /\ (ret'.call \in Mutators /\ ret'.self = p[2])
                => View(bases', ops', p[1]) = View(bases, ops, p[1])
          /\ (ret'.call \in Mutators /\ ret'.self = p[1])
                => View(bases', ops', p[2]) = View(bases, ops, p[2])

\* C7: a clone's base is another object than the original's base, and a mutation made
\* through the clone (data, wires, inversion) leaves the original's base parameters, base
\* wires, control wires and work wires unchanged, and the other way round.
C7_CopyIndependence == [][C7Step]_vars

\* a clone whose parameters were set to differ from the original's
C7_Witness ==
    \E p \in clones :
        /\ ret.call = "data.setter"
        /\ ret.self = p[2]
        /\ bases[ops[p[2]].base].data # bases[ops[p[1]].base].data

\* the capability combination of the base of operator o
CapOf(bs, os, o) == bs[os[o].base].cap

C8Step ==
    /\ \A o1, o2 \in 1 .. Len(ops') :
          (CapOf(bases', ops', o1) = CapOf(bases', ops', o2)) <=> (ops'[o1].cls = ops'[o2].cls)
    /\ \A attr \in DOMAIN typeCache :
          typeCache[attr] # NoType => typeCache'[attr] = typeCache[attr]
    /\ \A t \in 1 .. Len(types) : types'[t] = types[t]

\* C8: after any step, two operators have the same class exactly when their bases have the
\* same capability combination, and a cached class, once set, is never replaced.
C8_TypeCaching == [][C8Step]_vars

\* two operators over different Operation-only bases share one derived class, and a third
\* over a base of another combination has another class
C8_Witness ==
    \E o1, o2, o3 \in Ops :
        /\ ops[o1].base # ops[o2].base
        /\ bases[ops[o1].base].cap = "Operation"
        /\ bases[ops[o2].base].cap = "Operation"
        /\ ops[o1].cls = ops[o2].cls
        /\ ops[o1].cls # ControlledCls
        /\ bases[ops[o3].base].cap = "Observable"
        /\ ops[o3].cls # ops[o1].cls

----------------------------------------------------------------------------
(* Claims about control_int, matrix, eigvals and decomposition (QuerySpec) *)

RECURSIVE BinaryValue(_, _)
\* the sum of 2^(n-1-k) over the positions k = 0 .. upto-1 of cv that hold True, n = Len(cv)
BinaryValue(cv, upto) ==
    IF upto = 0
    THEN 0
    ELSE BinaryValue(cv, upto - 1) + (IF cv[upto] = PyTrue THEN Pow2(Len(cv) - upto) ELSE 0)

\* C3: control_int of a boolean sequence is the sum of 2^(n-1-k) over its True positions k
\* (most significant bit first); [True, False] gives 2, [True, True] 3, [False, False] 0.
C3_ControlInt ==
    ret.call = "_control_int" =>
        LET cv == ops[ret.self].control_values
        IN  /\ ret.out = BinaryValue(cv, Len(cv))
            /\ cv = <<>> => ret.out = 0
            /\ cv = <<PyTrue, PyFalse>> => ret.out = 2
            /\ cv = <<PyTrue, PyTrue>> => ret.out = 3
            /\ cv = <<PyFalse, PyFalse>> => ret.out = 0

\* control_int was read of an operator controlled on [True, False]
C3_Witness ==
    /\ ret.call = "_control_int"
    /\ ops[ret.self].control_values = <<PyTrue, PyFalse>>
    /\ ret.out = 2

C4Shape(o, m) ==
    LET self == ops[o]
        c == Len(self.control_wires)
        t == Len(bases[self.base].wires)
        M == BaseMatrix(bases[self.base])
        block == BinaryValue(self.control_values, c)
        first == block * Pow2(t)
        last == (block + 1) * Pow2(t) - 1
        size == Pow2(c + t)
    IN  /\ Len(m) = size
        /\ \A i \in 0 .. (size - 1) :
              /\ Len(m[i + 1]) = size
              /\ \A j \in 0 .. (size - 1) :
                    m[i + 1][j + 1] =
                        IF first <= i /\ i <= last /\ first <= j /\ j <= last
                        THEN M[i - first + 1][j - first + 1]
                        ELSE IF i = j THEN 1 ELSE 0

\* C4: matrix() is square of size 2^(c+t); its diagonal block number control_int is the
\* base's matrix, every other diagonal entry is 1 and every other entry 0; for PauliX with
\* one True control it is the CNOT matrix.
C4_Matrix ==
    ret.call = "matrix" =>
        /\ C4Shape(ret.self, ret.out)
        /\ (bases[ops[ret.self].base].name = "PauliX"
            /\ ops[ret.self].control_values = <<PyTrue>>)
              => ret.out = <<<<1, 0, 0, 0>>, <<0, 1, 0, 0>>, <<0, 0, 0, 1>>, <<0, 0, 1, 0>>>>

\* matrix() was called on an operator with a False control value and a non-symmetric base
C4_Witness ==
    /\ ret.call = "matrix"
    /\ ops[ret.self].control_values = <<PyFalse, PyTrue>>
    /\ bases[ops[ret.self].base].name = "TempOperator"
    /\ ret.out[3] = <<0, 0, 1, 2, 0, 0, 0, 0>>

\* C5: eigvals() is 2^(c+t) - 2^t ones followed by the base's eigenvalues in the base's
\* order, whatever the control values; for PauliX with one control it is [1, 1, 1, -1].
C5_Eigvals ==
    ret.call = "eigvals" =>
        LET self == ops[ret.self]
            c == Len(self.control_wires)
            t == Len(bases[self.base].wires)
            e == BaseEigvals(bases[self.base])
            n == Pow2(c + t) - Pow2(t)
        IN  /\ Len(ret.out) = Pow2(c + t)
            /\ \A k \in 1 .. n : ret.out[k] = 1
            /\ \A k \in 1 .. Pow2(t) : ret.out[n + k] = e[k]
            /\ (bases[self.base].name = "PauliX" /\ c = 1) => ret.out = <<1, 1, 1, -1>>

\* eigvals() was called on an operator controlled on False
C5_Witness ==
    /\ ret.call = "eigvals"
    /\ ops[ret.self].control_values = <<PyFalse>>
    /\ bases[ops[ret.self].base].name = "PauliX"
    /\ ret.out = <<1, 1, 1, -1>>

\* the product a * b of two square matrices of one size
MatMul(a, b) ==
    LET n == Len(a)
        RECURSIVE Dot(_, _, _)
        Dot(i, j, k) == IF k = 0 THEN 0 ELSE Dot(i, j, k - 1) + a[i][k] * b[k][j]
    IN  Tuple([i \in 1 .. n |-> Tuple([j \in 1 .. n |-> Dot(i, j, n)])])

\* the position of wire w in the wire sequence ws
PositionOf(w, ws) == CHOOSE p \in 1 .. Len(ws) : ws[p] = w

\* PauliX on the qubit at position p of n qubits (first qubit most significant): the
\* permutation that flips bit n - p of the state index
XMatrix(p, n) ==
    LET weight == Pow2(n - p)
        Flip(i) == IF (i \div weight) % 2 = 1 THEN i - weight ELSE i + weight
    IN  Tuple([i \in 1 .. Pow2(n) |->
                  Tuple([j \in 1 .. Pow2(n) |-> IF j - 1 = Flip(i - 1) THEN 1 ELSE 0])])

\* the matrix of one gate of a decomposition of operator o, on o's control and target wires
GateMatrix(g, o) ==
    IF g.gate = "PauliX"
    THEN XMatrix(PositionOf(g.arg, ops[o].control_wires),
                 Len(ops[o].control_wires) + Len(bases[ops[o].base].wires))
    ELSE matrix(H, g.arg)

RECURSIVE CircuitMatrix(_, _, _)
\* the matrix of applying the first k gates of `gates` in order: gate k is applied last
CircuitMatrix(gates, o, k) ==
    IF k = 1
    THEN GateMatrix(gates[1], o)
    ELSE MatMul(GateMatrix(gates[k], o), CircuitMatrix(gates, o, k - 1))

\* the control wires of operator o whose control value is False, in control-wire order
FalseWires(o) ==
    LET cw == ops[o].control_wires
        cv == ops[o].control_values
        RECURSIVE Upto(_)
        Upto(k) == IF k = 0 THEN <<>>
                   ELSE Upto(k - 1) \o (IF cv[k] = PyFalse THEN <<cw[k]>> ELSE <<>>)
    IN  Upto(Len(cw))

\* C6: with some control value False, decomposition() returns an X gate on each False-valued
\* control wire in order, one Controlled over the same base, control wires and work wires
\* with all control values True, and the same X gates again; applied in order they have the
\* matrix of the operator itself.
C6_Decomposition ==
    (ret.call = "decomposition" /\ \E k \in 1 .. Len(ops[ret.self].control_values) :
                                       ops[ret.self].control_values[k] = PyFalse) =>
        LET o == ret.self
            xs == FalseWires(o)
            nx == Len(xs)
            inner == ret.out[nx + 1].arg
        IN  /\ ret.err = ""
            /\ Len(ret.out) = 2 * nx + 1
            /\ \A k \in 1 .. nx : /\ ret.out[k] = Gate("PauliX", xs[k])
                                  /\ ret.out[nx + 1 + k] = Gate("PauliX", xs[k])
            /\ ret.out[nx + 1].gate = "Controlled"
            /\ inner # o
            /\ ops[inner].base = ops[o].base
            /\ ops[inner].control_wires = ops[o].control_wires
            /\ ops[inner].work_wires = ops[o].work_wires
            /\ ops[inner].control_values = [k \in 1 .. Len(ops[o].control_wires) |-> PyTrue]
            /\ CircuitMatrix(ret.out, o, Len(ret.out)) = matrix(H, o)

\* an operator controlled on [False, True] was decomposed
C6_Witness ==
    /\ ret.call = "decomposition"
    /\ ret.err = ""
    /\ ops[ret.self].control_values = <<PyFalse, PyTrue>>
    /\ Len(ret.out) = 3

----------------------------------------------------------------------------
(* Claims about adjoint and pow (DeriveSpec) *)

\* the control metadata of operator o
Metadata(os, o) == <<os[o].control_wires, os[o].control_values, os[o].work_wires>>

\* operator o itself is as it was: same base object with the same attributes, same metadata
Untouched(o) ==
    /\ ops'[o] = ops[o]
    /\ bases'[ops[o].base] = bases[ops[o].base]
    /\ wires(H', o) = wires(H, o)

C9Adjoint(o) ==
    /\ ret'.err = ""
    /\ Len(ret'.out) = 1
    /\ LET n == ret'.out[1].arg
       IN  /\ n \in (1 .. Len(ops')) \ Ops
           /\ ops'[n].base \notin 1 .. Len(bases)
           /\ bases'[ops'[n].base] = BaseAdjoint(bases[ops[o].base])
           /\ Metadata(ops', n) = Metadata(ops, o)
    /\ Untouched(o)

C9Pow(o, angles) ==
    LET base_pow == BasePow(bases[ops[o].base], angles)
    IN  /\ ret'.err = ""
        /\ Len(ret'.out) = Len(base_pow)
        /\ \A k \in 1 .. Len(base_pow) :
              LET n == ret'.out[k].arg
              IN  /\ ret'.out[k].gate = "Controlled"
                  /\ n \in (1 .. Len(ops')) \ Ops
                  /\ ops'[n].base = Len(bases) + k
                  /\ bases'[ops'[n].base] = base_pow[k]
                  /\ Metadata(ops', n) = Metadata(ops, o)
        /\ \A j, k \in 1 .. Len(base_pow) : j # k => ret'.out[j].arg # ret'.out[k].arg
        /\ Untouched(o)

\* C9: adjoint() returns a new Controlled over base.adjoint() with op's control wires, control
\* values and work wires; pow(z) returns one new Controlled per operator of base.pow(z), in
\* the same order, each with op's metadata; neither changes op, its base or its wires.
C9_AdjointPowWrapping ==
    [][/\ \A o \in Ops : Adjoint(o) => C9Adjoint(o)
       /\ \A o \in Ops, angles \in SeqsUpTo(Data, MaxPowAngles) :
             Pow(o, angles) => C9Pow(o, angles)]_vars

\* pow(z) wrapped two operators with different parameters, under some False control value
\* and a work wire
C9_Witness ==
    /\ ret.call = "pow"
    /\ Len(ret.out) = 2
    /\ bases[ops[ret.out[1].arg].base].data # bases[ops[ret.out[2].arg].base].data
    /\ \E k \in 1 .. Len(ops[ret.self].control_values) : ~Truthy(ops[ret.self].control_values[k])
    /\ ops[ret.self].work_wires # <<>>
    /\ Metadata(ops, ret.out[2].arg) = Metadata(ops, ret.self)

----------------------------------------------------------------------------
(* Claims about the name of an operator (NameSpec) *)

\* C11 (as stated): in every reachable state the name of every Operation-capable Controlled
\* operator is "C" followed by its base's name, however the base was inverted.
C11_NameFollowsBase ==
    \A o \in Ops :
        HasControlledOperation(H, ops[o].cls) => ops[o].name = "C" \o BaseName(bases[ops[o].base])

====
